---- MODULE Spec2Model ----
(***************************************************************************)
(* A model of vyos-client: the Vyos request gateway (Vyos.request), the    *)
(* form encoding installed by the constructor, and the VyosConfig,         *)
(* VyosImages and VyosOps facades built on it.                             *)
(*                                                                         *)
(* JavaScript values are tagged records, so that a string, null, undefined *)
(* and an object are different values that can still be compared.  A path  *)
(* string is a sequence of atoms: the atom " " is one space character and  *)
(* every other atom is a piece of text without a space.                    *)
(***************************************************************************)
EXTENDS Integers, Sequences, FiniteSets, TLC

\* Longest path string, in atoms.
MaxPathLen == 3
\* Number of calls that can be outstanding on the one client.
MaxCalls == 2

Calls == 1..MaxCalls

-----------------------------------------------------------------------------
(* JavaScript values *)

Undefined == [t |-> "undefined"]
Null == [t |-> "null"]
Bool(b) == [t |-> "boolean", b |-> b]
Num(n) == [t |-> "number", n |-> n]
Str(s) == [t |-> "string", s |-> s]
Fn(name) == [t |-> "function", name |-> name]
\* own: the object's own properties, a function from key to value.
Obj(own) == [t |-> "object", own |-> own]

\* Members every plain object inherits from Object.prototype.
ObjectPrototypeKeys ==
  {"constructor", "toString", "toLocaleString", "valueOf", "hasOwnProperty",
   "isPrototypeOf", "propertyIsEnumerable", "__proto__"}

IsNullish(v) == v.t \in {"undefined", "null"}

\* ToBoolean, as applied by && in `body.success === false && body.error`.
Truthy(v) ==
  CASE v.t = "undefined" -> FALSE
    [] v.t = "null" -> FALSE
    [] v.t = "boolean" -> v.b
    [] v.t = "number" -> v.n # 0
    [] v.t = "string" -> v.s # ""
    [] OTHER -> TRUE

\* `v === false`
IsFalse(v) == v.t = "boolean" /\ v.b = FALSE

\* `k in o` for an object o: own properties and the prototype chain.
HasProperty(o, k) == k \in DOMAIN o.own \/ k \in ObjectPrototypeKeys

\* `v.k` for a v that is neither null nor undefined.  The keys the program
\* reads (success, error, data, response and config keys) are not members of
\* any primitive's wrapper, so a primitive yields undefined.
Get(v, k) ==
  IF v.t = "object"
    THEN IF k \in DOMAIN v.own THEN v.own[k]
         ELSE IF k \in ObjectPrototypeKeys THEN Fn(k)
         ELSE Undefined
    ELSE Undefined

\* `v?.k`
OptGet(v, k) == IF IsNullish(v) THEN Undefined ELSE Get(v, k)

\* How a block or an awaited promise completes.
Return(v) == [kind |-> "return", value |-> v]
Throw(v) == [kind |-> "throw", value |-> v]
Pending == [kind |-> "pending"]

TypeError(msg) == Obj([name |-> Str("TypeError"), message |-> Str(msg)])

-----------------------------------------------------------------------------
(* The wire: Result Envelopes, HTTP responses, transport errors *)

\* interface Response { success, data, error }; error = Undefined stands for
\* an envelope that has no error member.
Response(success, data, error) ==
  IF error.t = "undefined"
    THEN Obj([success |-> Bool(success), data |-> data])
    ELSE Obj([success |-> Bool(success), data |-> data, error |-> error])

EnvelopeData ==
  {Null, Str("my-vyos"), Obj([k \in {"host-name"} |-> Str("my-vyos")]),
   Obj([a |-> Num(1), b |-> Num(2)])}

EnvelopeErrors == {Str("boom"), Str(""), Null, Undefined}

\* Successful envelopes with every shape of data; failing envelopes with
\* every shape of error, with and without data beside it.
Envelopes ==
  {Response(TRUE, d, Null) : d \in EnvelopeData}
    \cup {Response(TRUE, Null, Str("boom"))}
    \cup {Response(FALSE, d, e) : d \in {Null, Str("my-vyos")}, e \in EnvelopeErrors}

\* What a response body can parse to: an envelope, a body that is not JSON
\* (left as a string), or JSON null.
Bodies == Envelopes \cup {Str("<html>502 Bad Gateway</html>"), Null}

NoResponse(code) == [arrived |-> FALSE, code |-> code]
HttpResponse(status, data) == [arrived |-> TRUE, status |-> status, data |-> data]
NoReply == [arrived |-> FALSE, code |-> "none"]

\* Everything the network can answer a POST with.
Replies ==
  {NoResponse(c) : c \in {"ECONNREFUSED", "ETIMEDOUT"}}
    \cup {HttpResponse(s, b) : s \in {200, 500}, b \in Bodies}

\* The error the transport rejects with: it has a response member only when
\* a response arrived.
AxiosError(reply) ==
  IF reply.arrived
    THEN Obj([name |-> Str("AxiosError"), code |-> Str("ERR_BAD_RESPONSE"),
              response |-> Obj([status |-> Num(reply.status), data |-> reply.data])])
    ELSE Obj([name |-> Str("AxiosError"), code |-> Str(reply.code)])

\* `await this.#client.post(endpoint, payload)`: resolves with the response
\* on a 2xx status and rejects with the transport's error otherwise.
postSettled(reply) ==
  IF reply.arrived /\ reply.status >= 200 /\ reply.status < 300
    THEN Return(Obj([status |-> Num(reply.status), data |-> reply.data]))
    ELSE Throw(AxiosError(reply))

-----------------------------------------------------------------------------
(* Vyos: constructor and request *)

Quote(s) == "\"" \o s \o "\""

RECURSIVE JoinComma(_)
JoinComma(ss) ==
  IF ss = <<>> THEN ""
  ELSE IF Len(ss) = 1 THEN ss[1]
  ELSE ss[1] \o "," \o JoinComma(Tail(ss))

\* The order in which the facades' object literals write their members.
MemberOrder == <<"op", "path", "value", "url", "name">>

\* JSON.stringify of an operation descriptor: members in insertion order,
\* strings quoted, path as an array of quoted strings.  (No text of the
\* model holds a character that JSON escapes.)
JSONstringify(d) ==
  LET present(k) == k \in DOMAIN d
      keys == SelectSeq(MemberOrder, present)
      member(k) ==
        Quote(k) \o ":" \o
          (IF k = "path"
             THEN "[" \o JoinComma([i \in 1..Len(d.path) |-> Quote(d.path[i])]) \o "]"
             ELSE Quote(d[k]))
  IN "{" \o JoinComma([i \in 1..Len(keys) |-> member(keys[i])]) \o "}"

\* transformRequest: a form with the fields key and data.
transformRequest(data, key) == [key |-> key, data |-> JSONstringify(data)]

\* requestPosts with the POST issued a second time.
requestPostsRetried(cfg, endpoint, payload) ==
  LET post == [method |-> "POST", baseURL |-> cfg.baseURL, url |-> endpoint,
               body |-> transformRequest(payload, cfg.key)]
  IN << post, post >>

\* The POSTs one invocation of request issues before it suspends.
requestPosts(cfg, endpoint, payload) ==
  << [method |-> "POST", baseURL |-> cfg.baseURL, url |-> endpoint,
      body |-> transformRequest(payload, cfg.key)] >>

\* tryBlock returning the envelope's data instead of the envelope.
tryBlockUnwrapsData(response) ==
  LET body == Get(response, "data") IN
    IF IsNullish(body)
      THEN Throw(TypeError("Cannot read properties of null (reading 'success')"))
    ELSE IF IsFalse(Get(body, "success")) /\ Truthy(Get(body, "error"))
      THEN Throw(Get(body, "error"))
    ELSE Return(Get(body, "data"))

\* The try block of request, entered with the resolved response.
tryBlock(response) ==
  LET body == Get(response, "data") IN
    IF IsNullish(body)
      THEN Throw(TypeError("Cannot read properties of null (reading 'success')"))
    ELSE IF IsFalse(Get(body, "success")) /\ Truthy(Get(body, "error"))
      THEN Throw(Get(body, "error"))
    ELSE Return(body)

\* catchBlock throwing any error member it finds, whatever success says.
catchBlockAnyErrorMember(err) ==
  LET body == OptGet(OptGet(err, "response"), "data") IN
    IF Truthy(OptGet(body, "error"))
      THEN Throw(OptGet(body, "error"))
      ELSE Throw(err)

\* The catch block of request, entered with whatever the try block threw.
catchBlock(err) ==
  LET body == OptGet(OptGet(err, "response"), "data") IN
    IF IsFalse(OptGet(body, "success")) /\ Truthy(OptGet(body, "error"))
      THEN Throw(OptGet(body, "error"))
      ELSE Throw(err)

\* request, from the settlement of its POST to its own settlement.
request(reply) ==
  LET posted == postSettled(reply) IN
    IF posted.kind = "throw" THEN catchBlock(posted.value)
    ELSE LET tried == tryBlock(posted.value) IN
           IF tried.kind = "throw" THEN catchBlock(tried.value) ELSE tried

-----------------------------------------------------------------------------
(* Path splitting and the operation descriptors of the facades *)

\* path.split(' '): scan the string, closing a segment at every space.
RECURSIVE splitScan(_, _, _)
splitScan(rest, segment, done) ==
  IF rest = <<>> THEN Append(done, segment)
  ELSE IF Head(rest) = " " THEN splitScan(Tail(rest), "", Append(done, segment))
  ELSE splitScan(Tail(rest), segment \o Head(rest), done)

split(path) == splitScan(path, "", <<>>)

\* `const [terminal] = components.slice(-1)`
terminalOf(components) == components[Len(components)]

DefaultFile == "/config/config.boot"

\* A parameter with a default: undefined (or no argument) takes the default.
fileOrDefault(file) == IF file.t = "undefined" THEN DefaultFile ELSE file.s

configSetDescriptor(path, value) == [op |-> "set", path |-> split(path), value |-> value]
configDeleteDescriptor(path) == [op |-> "delete", path |-> split(path)]
configShowDescriptor(path) == [op |-> "showConfig", path |-> split(path)]
configCommentDescriptor(path, value) ==
  [op |-> "comment", path |-> split(path), value |-> value]
configSaveDescriptor(file) == [op |-> "save", value |-> fileOrDefault(file)]
\* configLoadDescriptor always loading the default file.
configLoadDescriptorIgnoresFile(file) == [op |-> "load", value |-> DefaultFile]
configLoadDescriptor(file) == [op |-> "load", value |-> fileOrDefault(file)]
imagesAddDescriptor(url) == [op |-> "add", url |-> url]
\* imagesRemoveDescriptor naming the operation after the method.
imagesRemoveDescriptorOpRemove(name) == [op |-> "remove", name |-> name]
imagesRemoveDescriptor(name) == [op |-> "delete", name |-> name]
opsShowDescriptor(path) == [op |-> "show", path |-> split(path)]
opsGenerateDescriptor(path) == [op |-> "generate", path |-> split(path)]

-----------------------------------------------------------------------------
(* What each facade does with the settlement of its request *)

\* `return await request(...)`: the facade settles as the request did.
returnAwaited(out) == out

\* `await request(...)` with no return: resolves with undefined.
awaitOnly(out) == IF out.kind = "throw" THEN out ELSE Return(Undefined)

\* VyosConfig.show after the await: destructure data, then
\* `terminal in data ? data[terminal] : data`.
configShowResult(path, out) ==
  IF out.kind = "throw" THEN out
  ELSE LET body == out.value
           terminal == terminalOf(split(path))
       IN IF IsNullish(body)
            THEN Throw(TypeError("Cannot destructure property 'data'"))
          ELSE LET data == Get(body, "data") IN
            IF data.t \notin {"object", "function"}
              THEN Throw(TypeError("Cannot use 'in' operator"))
            ELSE IF HasProperty(data, terminal) THEN Return(Get(data, terminal))
            ELSE Return(data)

\* VyosOps.show after the await: `(await request(...)).data`
opsShowResult(out) ==
  IF out.kind = "throw" THEN out
  ELSE IF IsNullish(out.value)
    THEN Throw(TypeError("Cannot read properties of null (reading 'data')"))
  ELSE Return(Get(out.value, "data"))

facadeResult(c, out) ==
  CASE c.facade \in {"request", "config.set", "ops.generate"} -> returnAwaited(out)
    [] c.facade = "config.show" -> configShowResult(c.path, out)
    [] c.facade = "ops.show" -> opsShowResult(out)
    [] OTHER -> awaitOnly(out)

-----------------------------------------------------------------------------
(* State *)

VARIABLES
  config,      \* what the constructor fixed: base URL and key
  pc,          \* per call: "idle", "awaiting", "replied" or "done"
  call,        \* per call: the facade operation invoked and its arguments
  posts,       \* per call: the POSTs it has issued, in order
  net,         \* per call: what the network answered its POST with
  reqOutcome,  \* per call: how request settled
  result       \* per call: how the facade operation settled

vars == <<config, pc, call, posts, net, reqOutcome, result>>

NoCall == [facade |-> "none"]

\* new Vyos(url, key), with the README's url and key
vyosConstructor == [baseURL |-> "https://my-vyos.local/", key |-> "API-KEY"]

Init ==
  /\ config = vyosConstructor
  /\ pc = [c \in Calls |-> "idle"]
  /\ call = [c \in Calls |-> NoCall]
  /\ posts = [c \in Calls |-> <<>>]
  /\ net = [c \in Calls |-> NoReply]
  /\ reqOutcome = [c \in Calls |-> Pending]
  /\ result = [c \in Calls |-> Pending]

-----------------------------------------------------------------------------
(* Operations *)

\* A facade method up to its await: build the descriptor, call request,
\* which issues its POST and suspends.
invoke(c, facade, path, arg, endpoint, payload) ==
  /\ pc' = [pc EXCEPT ![c] = "awaiting"]
  /\ call' = [call EXCEPT ![c] = [facade |-> facade, path |-> path, arg |-> arg,
                                  endpoint |-> endpoint, payload |-> payload]]
  /\ posts' = [posts EXCEPT ![c] = posts[c] \o requestPosts(config, endpoint, payload)]
  /\ UNCHANGED <<config, net, reqOutcome, result>>

Request(c, endpoint, payload) ==
  /\ pc[c] = "idle"
  /\ invoke(c, "request", <<>>, Undefined, endpoint, payload)

ConfigSet(c, path, value) ==
  /\ pc[c] = "idle"
  /\ invoke(c, "config.set", path, Str(value), "configure", configSetDescriptor(path, value))

ConfigDelete(c, path) ==
  /\ pc[c] = "idle"
  /\ invoke(c, "config.delete", path, Undefined, "configure", configDeleteDescriptor(path))

ConfigShow(c, path) ==
  /\ pc[c] = "idle"
  /\ invoke(c, "config.show", path, Undefined, "retrieve", configShowDescriptor(path))

ConfigComment(c, path, value) ==
  /\ pc[c] = "idle"
  /\ invoke(c, "config.comment", path, Str(value), "configure",
         configCommentDescriptor(path, value))

ConfigSave(c, file) ==
  /\ pc[c] = "idle"
  /\ invoke(c, "config.save", <<>>, file, "config-file", configSaveDescriptor(file))

ConfigLoad(c, file) ==
  /\ pc[c] = "idle"
  /\ invoke(c, "config.load", <<>>, file, "config-file", configLoadDescriptor(file))

ImagesAdd(c, url) ==
  /\ pc[c] = "idle"
  /\ invoke(c, "images.add", <<>>, Str(url), "image", imagesAddDescriptor(url))

ImagesRemove(c, name) ==
  /\ pc[c] = "idle"
  /\ invoke(c, "images.remove", <<>>, Str(name), "image", imagesRemoveDescriptor(name))

OpsShow(c, path) ==
  /\ pc[c] = "idle"
  /\ invoke(c, "ops.show", path, Undefined, "show", opsShowDescriptor(path))

OpsGenerate(c, path) ==
  /\ pc[c] = "idle"
  /\ invoke(c, "ops.generate", path, Undefined, "generate", opsGenerateDescriptor(path))

\* The network answers the POST of call c (or fails to).
Reply(c, reply) ==
  /\ pc[c] = "awaiting"
  /\ pc' = [pc EXCEPT ![c] = "replied"]
  /\ net' = [net EXCEPT ![c] = reply]
  /\ UNCHANGED <<config, call, posts, reqOutcome, result>>

\* awaitedReply reading one reply slot shared by every call.
awaitedReplyShared(c, n) == n[1]

\* The reply that settles the promise call c is awaiting: its own.
awaitedReply(c, n) == n[c]

\* request resumes after its await and settles; the facade method awaiting
\* it resumes and settles in turn.
Settle(c) ==
  /\ pc[c] = "replied"
  /\ pc' = [pc EXCEPT ![c] = "done"]
  /\ LET out == request(awaitedReply(c, net)) IN
       /\ reqOutcome' = [reqOutcome EXCEPT ![c] = out]
       /\ result' = [result EXCEPT ![c] = facadeResult(call[c], out)]
  /\ UNCHANGED <<config, call, posts, net>>

-----------------------------------------------------------------------------
(* Inputs *)

PathAtoms == {" ", "system", "host-name", "toString"}

RECURSIVE SeqsUpTo(_, _)
SeqsUpTo(S, n) ==
  IF n = 0 THEN {<<>>}
  ELSE LET shorter == SeqsUpTo(S, n - 1)
       IN shorter \cup {Append(s, a) : s \in shorter, a \in S}

Paths == SeqsUpTo(PathAtoms, MaxPathLen)
Values == {"my-vyos", ""}
Files == {Undefined, Str("/config/my-config.boot")}
Urls == {"https://downloads.vyos.io/vyos-1.4-rolling-amd64.iso"}
Names == {"1.4-rolling-202101301326"}
RawRequests ==
  {<<"configure", [op |-> "set", path |-> <<"system", "host-name">>, value |-> "my-vyos"]>>}

\* One client used by one caller, one call at a time.
Next ==
  \/ \E p \in Paths, v \in Values : ConfigSet(1, p, v)
  \/ \E p \in Paths : ConfigDelete(1, p)
  \/ \E p \in Paths : ConfigShow(1, p)
  \/ \E p \in Paths, v \in Values : ConfigComment(1, p, v)
  \/ \E f \in Files : ConfigSave(1, f)
  \/ \E f \in Files : ConfigLoad(1, f)
  \/ \E u \in Urls : ImagesAdd(1, u)
  \/ \E n \in Names : ImagesRemove(1, n)
  \/ \E p \in Paths : OpsShow(1, p)
  \/ \E p \in Paths : OpsGenerate(1, p)
  \/ \E r \in RawRequests : Request(1, r[1], r[2])
  \/ \E r \in Replies : Reply(1, r)
  \/ Settle(1)

Spec == Init /\ [][Next]_vars

\* Calls issued in parallel on the one client, replies in any order.
ConcPaths == {<<"system", " ", "host-name">>}
ConcReplies ==
  {NoResponse("ECONNREFUSED"),
   HttpResponse(200, Response(TRUE, Obj([k \in {"host-name"} |-> Str("my-vyos")]), Null)),
   HttpResponse(200, Response(FALSE, Null, Str("boom"))),
   HttpResponse(500, Response(FALSE, Null, Str("denied")))}

NextConc ==
  \E c \in Calls :
    \/ \E p \in ConcPaths : ConfigSet(c, p, "my-vyos")
    \/ \E p \in ConcPaths : ConfigShow(c, p)
    \/ \E u \in Urls : ImagesAdd(c, u)
    \/ \E p \in ConcPaths : OpsShow(c, p)
    \/ \E r \in ConcReplies : Reply(c, r)
    \/ Settle(c)

SpecConc == Init /\ [][NextConc]_vars

-----------------------------------------------------------------------------
(* Vocabulary of the properties *)

Done(c) == pc[c] = "done"
Invoked(c) == pc[c] # "idle"

IsEnvelope(b) == b.t = "object" /\ "success" \in DOMAIN b.own
FailingEnvelope(b) == IsEnvelope(b) /\ IsFalse(b.own["success"])
SuccessEnvelope(b) == IsEnvelope(b) /\ b.own["success"] = Bool(TRUE)

\* The error member of an envelope, undefined when it has none.
ErrorMember(b) == IF "error" \in DOMAIN b.own THEN b.own["error"] ELSE Undefined

\* The Result Envelope's invariant: a failing envelope carries a message.
WellFormedEnvelope(b) ==
  IsEnvelope(b) /\ (FailingEnvelope(b) => (ErrorMember(b).t = "string" /\ ErrorMember(b).s # ""))

Is2xx(reply) == reply.arrived /\ reply.status \in 200..299
Non2xx(reply) == reply.arrived /\ reply.status \notin 200..299

\* The same response under the other status of the pair 200 / 500.
OtherStatus(reply) == HttpResponse(IF reply.status = 200 THEN 500 ELSE 200, reply.data)

PathFacades ==
  {"config.set", "config.delete", "config.show", "config.comment", "ops.show",
   "ops.generate"}

RECURSIVE ConcatAll(_)
ConcatAll(atoms) == IF atoms = <<>> THEN "" ELSE Head(atoms) \o ConcatAll(Tail(atoms))

\* Splitting at each single space, stated by position: with the spaces of
\* the string at positions s1 < ... < sn, segment k is the text strictly
\* between s(k-1) and sk, where s0 = 0 and s(n+1) is one past the end.
SegmentsByPosition(path) ==
  LET spaces == {i \in 1..Len(path) : path[i] = " "}
      n == Cardinality(spaces)
      cut(k) == IF k = 0 THEN 0
                ELSE IF k = n + 1 THEN Len(path) + 1
                ELSE CHOOSE i \in spaces : Cardinality({j \in spaces : j < i}) = k - 1
  IN [k \in 1..(n + 1) |-> ConcatAll(SubSeq(path, cut(k - 1) + 1, cut(k) - 1))]

-----------------------------------------------------------------------------
(* Properties *)

\* C1: every envelope whose success flag is false, whatever its error member
\* and whatever status it arrives on, makes request fail with the envelope's
\* error, identically on a 2xx and a non-2xx status; request never resolves
\* with such an envelope.
C1_FailingEnvelopeAlwaysFails ==
  \A c \in Calls :
    (Done(c) /\ net[c].arrived /\ FailingEnvelope(net[c].data)) =>
      /\ reqOutcome[c].kind = "throw"
      /\ reqOutcome[c].value = ErrorMember(net[c].data)
      /\ reqOutcome[c] = request(OtherStatus(net[c]))

\* C2 as stated: on a 2xx exchange with a successful envelope, request
\* resolves with the envelope's data.
C2_ResolvesWithData ==
  \A c \in Calls :
    (Done(c) /\ Is2xx(net[c]) /\ SuccessEnvelope(net[c].data)) =>
      reqOutcome[c] = Return(Get(net[c].data, "data"))

\* C2 as amended: on a 2xx exchange with a successful envelope, request
\* resolves with the envelope itself, unchanged; the data payload is its
\* data member.
C2_ResolvesWithEnvelope ==
  \A c \in Calls :
    (Done(c) /\ Is2xx(net[c]) /\ SuccessEnvelope(net[c].data)) =>
      /\ reqOutcome[c] = Return(net[c].data)
      /\ Get(reqOutcome[c].value, "data") = net[c].data.own["data"]

C2_Witness ==
  \E c \in Calls :
    /\ Done(c) /\ Is2xx(net[c]) /\ SuccessEnvelope(net[c].data)
    /\ net[c].data.own["data"] = Obj([k \in {"host-name"} |-> Str("my-vyos")])
    /\ reqOutcome[c].kind = "return"

\* C3: every invocation issues exactly one POST, to baseURL/endpoint, whose
\* form carries the configured key and the JSON encoding of its descriptor,
\* whichever way the invocation ends; none is issued before or after.
C3_ExactlyOnePost ==
  \A c \in Calls :
    /\ ~Invoked(c) => posts[c] = <<>>
    /\ Invoked(c) =>
         /\ Len(posts[c]) = 1
         /\ posts[c][1].method = "POST"
         /\ posts[c][1].baseURL = "https://my-vyos.local/"
         /\ posts[c][1].url = call[c].endpoint
         /\ posts[c][1].body.key = "API-KEY"
         /\ posts[c][1].body.data = JSONstringify(call[c].payload)
    /\ (Invoked(c) /\ call[c].facade = "config.set"
          /\ call[c].path = <<"system", " ", "host-name">> /\ call[c].arg = Str("my-vyos")) =>
         posts[c][1].body.data
           = "{\"op\":\"set\",\"path\":[\"system\",\"host-name\"],\"value\":\"my-vyos\"}"

C3_Witness ==
  \E c \in Calls :
    /\ Done(c) /\ call[c].facade = "config.set"
    /\ call[c].path = <<"system", " ", "host-name">>
    /\ Non2xx(net[c]) /\ FailingEnvelope(net[c].data)
    /\ reqOutcome[c] = Throw(Str("boom"))
    /\ Len(posts[c]) = 1

\* C4: when no response arrives, or a non-2xx response carries a body that
\* is not a failing envelope, request fails with the transport's own error,
\* unchanged, and never with an error string; the facade fails the same way.
C4_TransportErrorRethrown ==
  \A c \in Calls :
    (Done(c) /\ (~net[c].arrived \/ (Non2xx(net[c]) /\ ~FailingEnvelope(net[c].data)))) =>
      /\ reqOutcome[c] = Throw(AxiosError(net[c]))
      /\ reqOutcome[c].value.t # "string"
      /\ result[c] = reqOutcome[c]

C4_Witness ==
  \E c \in Calls :
    /\ Done(c) /\ ~net[c].arrived /\ net[c].code = "ECONNREFUSED"
    /\ reqOutcome[c].kind = "throw"
    /\ Get(reqOutcome[c].value, "code") = Str("ECONNREFUSED")

\* C5: config.show, after a successful retrieval of a data mapping, returns
\* data[T] when T, the last segment of the path, is an own key of the
\* mapping, and the full mapping otherwise.
C5_ShowUnwrapsOwnKey ==
  \A c \in Calls :
    (Done(c) /\ call[c].facade = "config.show" /\ reqOutcome[c].kind = "return"
       /\ IsEnvelope(reqOutcome[c].value)
       /\ Get(reqOutcome[c].value, "data").t = "object") =>
      LET data == Get(reqOutcome[c].value, "data")
          T == terminalOf(SegmentsByPosition(call[c].path))
      IN result[c] = IF T \in DOMAIN data.own THEN Return(data.own[T]) ELSE Return(data)

\* C6: a facade operation resolves, or fails with the transport's error or
\* with the error string the remote supplied; on a successful envelope with
\* data of any allowed shape it fails in no other way.  (Stated for the
\* replies the Result Envelope's invariant allows: no response, or an
\* envelope that carries an error message whenever its success flag is false.)
C6_TwoFailureKindsOnly ==
  \A c \in Calls :
    (Done(c) /\ (~net[c].arrived \/ WellFormedEnvelope(net[c].data))) =>
      \/ result[c].kind = "return"
      \/ result[c] = Throw(AxiosError(net[c]))
      \/ /\ result[c].kind = "throw"
         /\ result[c].value.t = "string"
         /\ result[c].value = ErrorMember(net[c].data)

\* C7: each facade operation posts to its documented endpoint with its fixed
\* discriminator, whatever its arguments, and carries the caller's value,
\* url, name or file unmodified.
C7_EndpointAndDiscriminator ==
  \A c \in Calls :
    (Invoked(c) /\ call[c].facade # "request") =>
      LET f == call[c].facade
          d == call[c].payload
          expected ==
            CASE f = "config.set" -> <<"configure", "set">>
              [] f = "config.delete" -> <<"configure", "delete">>
              [] f = "config.comment" -> <<"configure", "comment">>
              [] f = "config.show" -> <<"retrieve", "showConfig">>
              [] f = "config.save" -> <<"config-file", "save">>
              [] f = "config.load" -> <<"config-file", "load">>
              [] f = "images.add" -> <<"image", "add">>
              [] f = "images.remove" -> <<"image", "delete">>
              [] f = "ops.show" -> <<"show", "show">>
              [] f = "ops.generate" -> <<"generate", "generate">>
      IN /\ posts[c][1].url = expected[1]
         /\ d.op = expected[2]
         /\ f \in {"config.set", "config.comment"} =>
              DOMAIN d = {"op", "path", "value"} /\ d.value = call[c].arg.s
         /\ f \in {"config.delete", "config.show", "ops.show", "ops.generate"} =>
              DOMAIN d = {"op", "path"}
         /\ (f \in {"config.save", "config.load"} /\ call[c].arg.t = "string") =>
              DOMAIN d = {"op", "value"} /\ d.value = call[c].arg.s
         /\ f = "images.add" => DOMAIN d = {"op", "url"} /\ d.url = call[c].arg.s
         /\ f = "images.remove" => DOMAIN d = {"op", "name"} /\ d.name = call[c].arg.s

C7_Witness ==
  \E c \in Calls :
    /\ Done(c) /\ call[c].facade = "images.remove"
    /\ posts[c][1].url = "image"
    /\ call[c].payload = [op |-> "delete", name |-> "1.4-rolling-202101301326"]

\* C8: the descriptor's path is the string split at each single space, in
\* order, and every segment of it is a non-empty string.
C8_SegmentsNonEmpty ==
  \A c \in Calls :
    (Invoked(c) /\ call[c].facade \in PathFacades) =>
      /\ call[c].payload.path = SegmentsByPosition(call[c].path)
      /\ \A i \in 1..Len(call[c].payload.path) : call[c].payload.path[i] # ""

\* C9: config.save and config.load send "/config/config.boot" as value when
\* called without a file, and the file they were given otherwise.
C9_DefaultFile ==
  \A c \in Calls :
    (Invoked(c) /\ call[c].facade \in {"config.save", "config.load"}) =>
      LET sent == call[c].payload.value
          op == IF call[c].facade = "config.save" THEN "save" ELSE "load"
      IN /\ call[c].arg.t = "undefined" =>
              /\ sent = "/config/config.boot"
              /\ posts[c][1].body.data
                   = "{\"op\":\"" \o op \o "\",\"value\":\"/config/config.boot\"}"
         /\ call[c].arg.t = "string" => sent = call[c].arg.s

C9_Witness ==
  \E c \in Calls :
    /\ Done(c) /\ call[c].facade = "config.load" /\ call[c].arg = Undefined
    /\ call[c].payload.value = "/config/config.boot"

\* C10: with calls outstanding together and replies arriving in any order,
\* each call's POST and outcome are those of the same call made alone (a
\* function of its own endpoint, descriptor and reply), and the client's
\* configuration stays as constructed.
C10_CallsIndependent ==
  /\ config = vyosConstructor
  /\ \A c \in Calls :
       /\ Invoked(c) =>
            posts[c] = requestPosts(vyosConstructor, call[c].endpoint, call[c].payload)
       /\ Done(c) =>
            /\ reqOutcome[c] = request(net[c])
            /\ result[c] = facadeResult(call[c], request(net[c]))
       /\ ~Done(c) => reqOutcome[c] = Pending /\ result[c] = Pending

C10_Witness ==
  \E c1, c2 \in Calls :
    /\ c1 < c2 /\ Done(c2) /\ pc[c1] = "replied"
    /\ call[c1].facade = "config.show" /\ call[c2].facade = "config.show"
    /\ Is2xx(net[c2]) /\ result[c2] = Return(Str("my-vyos"))
    /\ ~net[c1].arrived

====
